---- MODULE Spec2Model ----
(***************************************************************************)
(* Model of the A64 "Data Processing -- Immediate" decoder of              *)
(* libs/a2ir/src/aarch64_reader.rs: register extraction, data_proc_imm,    *)
(* highest_bit, ror, decode_bitmask and find_bfm_alias.                    *)
(*                                                                         *)
(* Machine words wider than 31 bits (the u32 instruction word, the u64     *)
(* immediate, the i64 offset) are modelled as the set of positions of      *)
(* their set bits (bit 0 = least significant), so that shifts, masks and   *)
(* complements are computed bit by bit as the code computes them.  Small   *)
(* quantities (u8 fields, shift amounts, loop counters) are integers.      *)
(***************************************************************************)
EXTENDS Integers, FiniteSets, Sequences, TLC

VARIABLES
    binst,   \* the u32 instruction word handed to the decoder (bit set)
    checks,  \* build profile: TRUE = overflow-checks on (debug), FALSE = off
    pc,      \* position of the decode call
    inst,    \* the Inst record under construction / returned
    regs,    \* results of the six register extraction functions
    dbm,     \* arguments of decode_bitmask
    hb,      \* locals x and n of highest_bit
    rep,     \* locals of decode_bitmask in its replication loop
    wmask,   \* local wmask of decode_bitmask, the value it returns
    fl       \* a call of a flags mutator: its arguments and its result

vars == <<binst, checks, pc, inst, regs, dbm, hb, rep, wmask, fl>>

(***************************************************************************)
(* Bounds of the model.                                                    *)
(***************************************************************************)
\* extra low register numbers 0..MaxReg sampled besides the fixed samples
MaxReg == 1
\* extra low immr/imms values 0..MaxImm sampled besides the fixed samples
MaxImm == 1
\* iterations of the highest_bit loop followed once x has become 0
MaxSpin == 2
\* values 0..MaxVal handed to the flags mutators besides the fixed samples
MaxVal == 31

(***************************************************************************)
(* Bit-vector arithmetic.                                                  *)
(***************************************************************************)
\* the bits of a small non-negative integer literal
Bits(n) == {i \in 0..30 : (n \div (2^i)) % 2 = 1}

\* the integer value of a bit set that fits 31 bits
RECURSIVE Val(_)
Val(s) == IF s = {} THEN 0
          ELSE LET i == CHOOSE j \in s : TRUE IN (2^i) + Val(s \ {i})

\* x >> n
Shr(s, n) == {i - n : i \in {j \in s : j >= n}}

\* x << n in a w-bit type (bits shifted out are lost), n < w
Shl(s, n, w) == {i + n : i \in {j \in s : j + n < w}}

\* !x in a w-bit type
Not(s, w) == (0..(w - 1)) \ s

\* x & y, x | y, x ^ y on small integers
AndN(a, b) == Val(Bits(a) \cap Bits(b))
OrN(a, b) == Val(Bits(a) \cup Bits(b))
XorN(a, b) == Val((Bits(a) \ Bits(b)) \cup (Bits(b) \ Bits(a)))

\* an i64 given as an integer, as its 64-bit two's complement pattern
I64(v) == IF v >= 0 THEN Bits(v) ELSE Not(Bits((-v) - 1), 64)

(***************************************************************************)
(* Constants of the program.                                               *)
(***************************************************************************)
ZERO_REG == 31
STACK_POINTER == 100

W32 == 1
SET_FLAGS == 2

SH_LSL == 0

SZ_B == 0
SZ_H == 1
SZ_W == 2
UXTB == OrN(0 * 4, SZ_B)
UXTH == OrN(0 * 4, SZ_H)
SXTB == OrN(1 * 4, SZ_B)
SXTH == OrN(1 * 4, SZ_H)
SXTW == OrN(1 * 4, SZ_W)

UNKNOWN_INST ==
    [ op |-> "A64_UNKNOWN", flags |-> 0,
      rd |-> 0, rn |-> 0, rm |-> 0, rt2 |-> 0, rs |-> 0,
      imm |-> {}, fimm |-> 0, offset |-> {}, ra |-> 0, error |-> "",
      movk |-> [imm16 |-> 0, lsl |-> 0],
      bfm |-> [lsb |-> 0, width |-> 0],
      ccmp |-> [nzcv |-> 0, imm5 |-> 0],
      sys |-> [op1 |-> 0, op2 |-> 0, crn |-> 0, crm |-> 0],
      msr_imm |-> [psfld |-> 0, imm |-> 0],
      tbz |-> [offset |-> 0, bit |-> 0],
      shift |-> SH_LSL,
      rmif |-> [mask |-> 0, ror |-> 0],
      extend |-> [typ |-> 0, lsl |-> 0],
      ldst_order |-> [load |-> 0, store |-> 0, rs |-> ZERO_REG],
      simd_ldst |-> [nreg |-> 0, index |-> 0, offset |-> 0],
      fcvt |-> [mode |-> 0, fbits |-> 0, sgn |-> 0],
      frint |-> [mode |-> 0, bits |-> 0],
      ins_elem |-> [dst |-> 0, src |-> 0],
      fcmla_elem |-> [idx |-> 0, rot |-> 0] ]

(***************************************************************************)
(* The flags byte: accessors and mutators of its sub-ranges (u8 values).   *)
(***************************************************************************)
fad_get_cond(flags) == AndN(flags \div 16, 15)

set_cond(flags, cond) ==
    LET c == AndN(cond, 15)
        f == AndN(flags, 15)
    IN  OrN(c * 16, f)

fad_get_addrmode(flags) == AndN(flags \div 32, 7)

\* set_addrmode keeping only the low four bits of the byte
set_addrmode_KeepLow4(flags, mode) == OrN(AndN(mode, 7) * 32, AndN(flags, 15))

set_addrmode(flags, mode) == OrN(AndN(mode, 7) * 32, AndN(flags, 31))

fad_get_mem_extend(flags) == AndN(flags \div 4, 7)

\* set_mem_extend with a mask that also clears bits 0 and 1
set_mem_extend_ClearLow(flags, memext) == OrN(AndN(memext, 7) * 4, AndN(flags, 224))

set_mem_extend(flags, memext) == OrN(AndN(memext, 7) * 4, AndN(flags, 227))

fad_get_vec_arrangement(flags) == AndN(flags \div 4, 7)

set_vec_arrangement(flags, va) == OrN(AndN(va, 7) * 4, AndN(flags, 227))

fad_get_prec(flags) == AndN(flags \div 2, 7)

set_prec(flags, prec) == OrN(AndN(prec, 7) * 2, AndN(flags, 241))

(***************************************************************************)
(* Register extraction.                                                    *)
(***************************************************************************)
regRd(w) == Val(w \cap Bits(31))

regRdSP(w) ==
    LET rd == Val(w \cap Bits(31))
    IN  IF rd = 31 THEN STACK_POINTER ELSE rd

regRn(w) == Val(Shr(w, 5) \cap Bits(31))

\* regRnSP without the stack-pointer mapping of register 31
regRnSP_NoSentinel(w) == Val(Shr(w, 5) \cap Bits(31))

regRnSP(w) ==
    LET rn == Val(Shr(w, 5) \cap Bits(31))
    IN  IF rn = 31 THEN STACK_POINTER ELSE rn

regRm(w) == Val(Shr(w, 16) \cap Bits(31))

regRmSP(w) ==
    LET rm == Val(Shr(w, 16) \cap Bits(31))
    IN  IF rm = 31 THEN STACK_POINTER ELSE rm

NoRegs == [rd |-> 0, rdsp |-> 0, rn |-> 0, rnsp |-> 0, rm |-> 0, rmsp |-> 0]
NoDbm == [immN |-> 0, imms |-> 0, immr |-> 0, w32 |-> FALSE]
NoHb == [x |-> 1, n |-> 0]
NoRep == [overflow |-> FALSE, welem |-> {}, esize |-> 1, M |-> 0, i |-> 0]
NoFl == [f |-> 0, v |-> 0, op |-> "none", out |-> 0]

(***************************************************************************)
(* sext: sign-extend the b-bit number x to 64 bits; the result is given as *)
(* an integer (it lies in -2^(b-1) .. 2^(b-1)-1).                          *)
(***************************************************************************)
\* sext extending with zeros whatever the sign bit is
sext_ZeroExtend(x, b) == Val(x)

sext(x, b) ==
    LET mask == 2^(b - 1)
    IN  XorN(Val(x), mask) - mask

\* scale * simm in i64, scale a power of two: the wrapping product is the
\* two's complement pattern shifted left (no overflow: |simm| < 2^20)
RECURSIVE Log2(_)
Log2(k) == IF k <= 1 THEN 0 ELSE 1 + Log2(k \div 2)

MulI64(scale, v) == Shl(I64(v), Log2(scale), 64)

(***************************************************************************)
(* u8 subtraction: overflow-checks panics on underflow, otherwise wraps.   *)
(***************************************************************************)
Sub8Overflows(a, b) == a < b

Sub8(a, b) == ((a - b) + 256) % 256

(***************************************************************************)
(* find_bfm_alias.  The result is [panic, inst]: panic = TRUE when the     *)
(* call aborts instead of returning a record.                              *)
(***************************************************************************)
Ret(i) == [panic |-> FALSE, inst |-> i]

Panic == [panic |-> TRUE, inst |-> UNKNOWN_INST]

\* the registers set before the alias rules with rn stored in rm as well
bfm_base_WithRm(w32, rd, rn) ==
    [UNKNOWN_INST EXCEPT !.rd = rd, !.rn = rn, !.rm = rn,
                         !.flags = IF w32 THEN OrN(@, W32) ELSE @]

\* the width flag and registers set before the alias rules
bfm_base(w32, rd, rn) ==
    [UNKNOWN_INST EXCEPT !.rd = rd, !.rn = rn,
                         !.flags = IF w32 THEN OrN(@, W32) ELSE @]

\* base BFM: BFXIL, BFC, BFI
bfm_insert_alias(base, w32, rn, immr, imms, chk) ==
    LET bits == IF w32 THEN 32 ELSE 64
    IN  IF imms >= immr
        THEN Ret([base EXCEPT !.op = "A64_BFXIL",
                              !.bfm = [lsb |-> immr, width |-> (imms - immr) + 1]])
        ELSE IF chk /\ Sub8Overflows(bits, immr)
        THEN Panic
        ELSE Ret([base EXCEPT !.op = IF rn = ZERO_REG THEN "A64_BFC" ELSE "A64_BFI",
                              !.bfm = [lsb |-> Sub8(bits, immr), width |-> imms + 1]])

\* the extend type chosen without regard to the signedness of the base
extend_typ_Unsigned(sign, imms) ==
    CASE imms = 7 -> UXTB
      [] imms = 15 -> UXTH
      [] imms = 31 -> SXTW

\* the extend type chosen for immr = 0 and imms in {7, 15, 31}
extend_typ(sign, imms) ==
    CASE imms = 7 -> IF sign THEN SXTB ELSE UXTB
      [] imms = 15 -> IF sign THEN SXTH ELSE UXTH
      [] imms = 31 -> SXTW

\* the imms = 31 arm returning the record for the unsigned base as well
uxtw_panics_Never(sign, imms) == FALSE

\* the match arm for imms = 31 returns the record only for the signed base
uxtw_panics(sign, imms) == imms = 31 /\ ~sign

\* the shift-right rule: imms is all ones for the operand width
is_shift_right(w32, imms) == imms = (IF w32 THEN 31 ELSE 63)

\* base SBFM / UBFM: LSL, ASR/LSR, SBFIZ/UBFIZ, extend, SBFX/UBFX
bfm_extract_alias(base, sign, w32, immr, imms, chk) ==
    LET all_ones == IF w32 THEN 31 ELSE 63
        bits == IF w32 THEN 32 ELSE 64
    IN  IF ~sign /\ imms + 1 = immr /\ imms # all_ones
        THEN IF chk /\ Sub8Overflows(all_ones, imms)
             THEN Panic
             ELSE Ret([base EXCEPT !.op = "A64_LSL_IMM",
                                   !.imm = Bits(Sub8(all_ones, imms))])
        ELSE IF is_shift_right(w32, imms)
        THEN Ret([base EXCEPT !.op = IF sign THEN "A64_ASR_IMM" ELSE "A64_LSR_IMM",
                              !.imm = Bits(immr)])
        ELSE IF imms < immr
        THEN IF chk /\ Sub8Overflows(bits, immr)
             THEN Panic
             ELSE Ret([base EXCEPT !.op = IF sign THEN "A64_SBFIZ" ELSE "A64_UBFIZ",
                                   !.bfm = [lsb |-> Sub8(bits, immr), width |-> imms + 1]])
        ELSE IF immr = 0 /\ imms \in {7, 15, 31}
        THEN IF uxtw_panics(sign, imms)
             THEN Panic
             ELSE Ret([base EXCEPT !.op = "A64_EXTEND",
                                   !.extend.typ = extend_typ(sign, imms)])
        ELSE Ret([base EXCEPT !.op = IF sign THEN "A64_SBFX" ELSE "A64_UBFX",
                              !.bfm = [lsb |-> immr, width |-> (imms - immr) + 1]])

find_bfm_alias(op, w32, rd, rn, immr, imms, chk) ==
    IF op = "A64_BFM"
    THEN bfm_insert_alias(bfm_base(w32, rd, rn), w32, rn, immr, imms, chk)
    ELSE bfm_extract_alias(bfm_base(w32, rd, rn), op = "A64_SBFM", w32, immr, imms, chk)

(***************************************************************************)
(* highest_bit, ror, decode_bitmask.                                       *)
(***************************************************************************)
\* the argument decode_bitmask passes to highest_bit
highest_bit_arg(immN, imms) ==
    OrN((AndN(immN, 1) * 64) % 256, Val(Not(Bits(AndN(imms, 63)), 8) \cap Bits(63)))

\* the value of v after k iterations of  v = (v << 1) | 1  in a w-bit type,
\* v = 0 at first: every iteration moves the set bits up by one place
\* (dropping bit w-1) and sets bit 0, which leaves bits 0..k-1 set
ones_loop(k, w) == {i \in 0..(w - 1) : i < k}

\* (1u64 << len) - 1
Mask(len) == 0..(len - 1)

\* x << (len - n) shifts a u64 by 64 when n = 0 and len = 64
ror_overflows(n, len) == (len - n) >= 64

\* the shift amount wraps modulo 64 when overflow-checks is off
ror(x, n, len) ==
    LET raw == Shr(x, n) \cup Shl(x, (len - n) % 64, 64)
    IN  IF len = 64 THEN raw ELSE raw \cap Mask(len)

\* wmask << esize shifts a u64 by 64 when esize = 64
replicate_overflows(esize) == esize >= 64

\* one iteration of the replication loop: wmask = (wmask << esize) | welem
replicate_step(mask, welem, esize) == Shl(mask, esize % 64, 64) \cup welem

\* decode_bitmask from the return of highest_bit (len) to the replication
\* loop: the rotated element, its size and the operand width
decode_bitmask_elem(len, imms0, immr0, w32) ==
    LET imms == AndN(imms0, 63)
        immr == AndN(immr0, 63)
        levels == Val(ones_loop(len, 8))
        S == AndN(imms, levels)
        R == AndN(immr, levels)
        esize == 2^len
    IN  [ overflow |-> ror_overflows(R, esize),
          welem |-> ror(ones_loop(S + 1, 64), R, esize),
          esize |-> esize,
          M |-> IF w32 THEN 32 ELSE 64,
          i |-> 0 ]

(***************************************************************************)
(* data_proc_imm.                                                          *)
(***************************************************************************)
op01_of(w) == Val(Shr(w, 22) \cap Bits(15))

top3_of(w) == Val(Shr(w, 29) \cap Bits(7))

\* the match on op01; its arms cover all sixteen values of the 4-bit
\* selector, so the Unknown arm is never taken
KindOf(op01) ==
    CASE op01 \in {0, 1, 2, 3} -> "PCRelAddr"
      [] op01 \in {6, 7} -> "AddSubTags"
      [] op01 \in {4, 5} -> "AddSub"
      [] op01 \in {8, 9} -> "Logic"
      [] op01 \in {10, 11} -> "Move"
      [] op01 \in {12, 13} -> "Bitfield"
      [] op01 \in {14, 15} -> "Extract"
      [] OTHER -> "Unknown"

\* bit 31 (sf) clear: 32-bit registers
width_flag(top3) == IF AndN(top3, 4) = 0 THEN W32 ELSE 0

\* the record after the width flag has been set
inst0(w) == [UNKNOWN_INST EXCEPT !.flags = OrN(@, width_flag(top3_of(w)))]

pcrel_inst(w) ==
    LET top3 == top3_of(w)
        op == IF AndN(top3, 4) = 0 THEN "A64_ADR" ELSE "A64_ADRP"
        immhi == w \cap Shl(Bits((2^19) - 1), 5, 32)
        immlo == Bits(AndN(top3, 3))
        uimm == Shr(immhi, 5 - 2) \cup immlo
        scale == IF op = "A64_ADRP" THEN 4096 ELSE 1
    IN  [inst0(w) EXCEPT !.op = op,
                         !.flags = AndN(@, 255 - W32),
                         !.offset = MulI64(scale, sext(uimm, 21)),
                         !.rd = regRd(w)]

\* CMN/CMP: destination is the zero register and the flags are set
is_cmp_alias(rd, flags) == rd = ZERO_REG /\ AndN(flags, SET_FLAGS) # 0

\* the MOV_SP predicate testing the destination register only
is_mov_sp_RdOnly(op, shift_by_12, unshifted_imm, rd, rn) ==
    /\ op = "A64_ADD_IMM"
    /\ ~shift_by_12
    /\ unshifted_imm = {}
    /\ rd = STACK_POINTER

\* MOV to/from SP
is_mov_sp(op, shift_by_12, unshifted_imm, rd, rn) ==
    /\ op = "A64_ADD_IMM"
    /\ ~shift_by_12
    /\ unshifted_imm = {}
    /\ (rd = STACK_POINTER \/ rn = STACK_POINTER)

addsub_inst(w) ==
    LET top3 == top3_of(w)
        is_add == AndN(top3, 2) = 0
        op == IF is_add THEN "A64_ADD_IMM" ELSE "A64_SUB_IMM"
        flags == IF AndN(top3, 1) # 0 THEN OrN(inst0(w).flags, SET_FLAGS)
                 ELSE inst0(w).flags
        unshifted_imm == Shr(w, 10) \cap Bits(4095)
        shift_by_12 == (w \cap {22}) # {}
        imm == IF shift_by_12 THEN Shl(unshifted_imm, 12, 64) ELSE unshifted_imm
        rd == IF AndN(flags, SET_FLAGS) # 0 THEN regRd(w) ELSE regRdSP(w)
        rn == regRnSP(w)
        op2 == IF is_cmp_alias(rd, flags)
               THEN (IF op = "A64_ADD_IMM" THEN "A64_CMN_IMM" ELSE "A64_CMP_IMM")
               ELSE IF is_mov_sp(op, shift_by_12, unshifted_imm, rd, rn)
               THEN "A64_MOV_SP"
               ELSE op
    IN  [inst0(w) EXCEPT !.op = op2, !.flags = flags, !.imm = imm,
                         !.rd = rd, !.rn = rn]

\* the Logic arm up to the call of decode_bitmask
logic_head(w) ==
    LET sel == AndN(top3_of(w), 3)
    IN  CASE sel = 0 -> [inst0(w) EXCEPT !.op = "A64_AND_IMM"]
          [] sel = 1 -> [inst0(w) EXCEPT !.op = "A64_ORR_IMM"]
          [] sel = 2 -> [inst0(w) EXCEPT !.op = "A64_EOR_IMM"]
          [] sel = 3 -> [inst0(w) EXCEPT
                           !.op = IF regRd(w) = ZERO_REG THEN "A64_TST_IMM"
                                  ELSE "A64_AND_IMM",
                           !.flags = OrN(@, SET_FLAGS)]

logic_args(w, flags) ==
    [ immN |-> IF AndN(flags, W32) # 0 THEN 0 ELSE Val(Shr(w, 22) \cap Bits(1)),
      imms |-> Val(Shr(w, 10) \cap Bits(63)),
      immr |-> Val(Shr(w, 16) \cap Bits(63)),
      w32 |-> AndN(flags, W32) # 0 ]

\* the Logic arm after decode_bitmask has returned
logic_tail(w, i, mask) ==
    [i EXCEPT !.imm = mask,
              !.rd = IF AndN(i.flags, SET_FLAGS) # 0 THEN regRd(w) ELSE regRdSP(w),
              !.rn = regRn(w)]

\* the MOVK arm forgetting the shift amount
movk_fields_NoShift(imm16, shift) == [imm16 |-> Val(imm16), lsl |-> 0]

\* the fields the MOVK arm writes
movk_fields(imm16, shift) == [imm16 |-> Val(imm16), lsl |-> shift]

\* the MOVN immediate without the complement
movn_imm_NoNot(imm16, shift) == Shl(imm16, shift, 64)

\* MOVN: !(imm16 << shift) in u64
movn_imm(imm16, shift) == Not(Shl(imm16, shift, 64), 64)

\* the Move arm; the reserved selector 01 returns UNKNOWN_INST early
move_inst(w) ==
    LET sel == AndN(top3_of(w), 3)
        hw == Val(Shr(w, 21) \cap Bits(3))
        shift == (16 * hw) % 256
        imm16 == Shr(w, 5) \cap Bits(65535)
    IN  CASE sel = 0 -> [inst0(w) EXCEPT !.op = "A64_MOV_IMM",
                                         !.imm = movn_imm(imm16, shift),
                                         !.rd = regRd(w)]
          [] sel = 1 -> UNKNOWN_INST
          [] sel = 2 -> [inst0(w) EXCEPT !.op = "A64_MOV_IMM",
                                         !.imm = Shl(imm16, shift, 64),
                                         !.rd = regRd(w)]
          [] sel = 3 -> [inst0(w) EXCEPT !.op = "A64_MOVK",
                                         !.movk = movk_fields(imm16, shift),
                                         !.rd = regRd(w)]

\* the Bitfield arm: [panic, inst]
bitfield_inst(w, chk) ==
    LET sel == AndN(top3_of(w), 3)
        w32 == AndN(inst0(w).flags, W32) # 0
        immr == Val(Shr(w, 16) \cap Bits(63))
        imms == Val(Shr(w, 10) \cap Bits(63))
    IN  IF sel = 3 THEN Panic
        ELSE find_bfm_alias(CASE sel = 0 -> "A64_SBFM"
                              [] sel = 1 -> "A64_BFM"
                              [] sel = 2 -> "A64_UBFM",
                            w32, regRd(w), regRn(w), immr, imms, chk)

\* the second source kept when both sources are the same register
extract_rm_Keep(rn, rm) == rm

\* the second source of the record: cleared for the rotate alias
extract_rm(rn, rm) == IF rn = rm THEN 0 ELSE rm

extract_inst(w) ==
    LET rn == regRn(w)
        rm == regRm(w)
    IN  [inst0(w) EXCEPT !.op = IF rn = rm THEN "A64_ROR_IMM" ELSE "A64_EXTR",
                         !.imm = Shr(w, 10) \cap Bits(63),
                         !.rd = regRd(w), !.rn = rn,
                         !.rm = extract_rm(rn, rm)]

(***************************************************************************)
(* Inputs.                                                                 *)
(***************************************************************************)
\* an instruction word of the class (bits 28:26 = 100) from its fields:
\* sf = bit 31, opc = bits 30:29, op01 = bits 25:22, f21 = bits 21:16,
\* f10 = bits 15:10, rn = bits 9:5, rd = bits 4:0
MkWord(sf, opc, op01, f21, f10, rn, rd) ==
    Shl(Bits(sf), 31, 32) \cup Shl(Bits(opc), 29, 32) \cup {28}
      \cup Shl(Bits(op01), 22, 32) \cup Shl(Bits(f21), 16, 32)
      \cup Shl(Bits(f10), 10, 32) \cup Shl(Bits(rn), 5, 32) \cup Bits(rd)

SampleRegs == (0..MaxReg) \cup {31}

SampleImms == (0..MaxImm) \cup {7, 15, 31, 32, 62, 63}

SampleImmr == (0..MaxImm) \cup {33}

\* ADD SP, X5, #0;  MOVK X0, #0x1234, LSL #16;  MOVK W3, #0x1234, LSL #16;
\* EXTR XZR, X5, XZR, #12;  ROR XZR, XZR, #63 (EXTR with Rn = Rm = 31)
ExampleWords ==
    { MkWord(1, 0, 4, 0, 0, 5, 31),
      MkWord(1, 3, 10, 34, 17, 20, 0),
      MkWord(0, 3, 10, 34, 17, 20, 3),
      MkWord(1, 0, 15, 31, 12, 5, 31),
      MkWord(1, 0, 15, 31, 63, 31, 31) }

Words ==
    { MkWord(sf, opc, op01, f21, f10, rn, rd) :
        sf \in 0..1, opc \in 0..3, op01 \in 0..15,
        f21 \in SampleImmr, f10 \in SampleImms,
        rn \in SampleRegs, rd \in SampleRegs }
      \cup ExampleWords

\* words with every value of the three register fields; the bits outside
\* the fields are all clear or all set
RegWords ==
    { Shl(Bits(rm), 16, 32) \cup Shl(Bits(rn), 5, 32) \cup Bits(rd)
        \cup (IF rest THEN (10..15) \cup (21..31) ELSE {}) :
        rm \in 0..31, rn \in 0..31, rd \in 0..31, rest \in BOOLEAN }

(***************************************************************************)
(* The decode call: data_proc_imm(binst).                                  *)
(***************************************************************************)
Init ==
    /\ binst \in Words
    /\ checks \in BOOLEAN
    /\ pc = "entry"
    /\ inst = UNKNOWN_INST
    /\ regs = NoRegs
    /\ dbm = NoDbm
    /\ hb = NoHb
    /\ rep = NoRep
    /\ wmask = {}
    /\ fl = NoFl

Kind == KindOf(op01_of(binst))

DecodePCRelAddr ==
    /\ pc = "entry" /\ Kind = "PCRelAddr"
    /\ inst' = pcrel_inst(binst)
    /\ pc' = "done"
    /\ UNCHANGED <<binst, checks, regs, dbm, hb, rep, wmask, fl>>

DecodeAddSubTags ==
    /\ pc = "entry" /\ Kind = "AddSubTags"
    /\ pc' = "panic"
    /\ UNCHANGED <<binst, checks, inst, regs, dbm, hb, rep, wmask, fl>>

DecodeAddSub ==
    /\ pc = "entry" /\ Kind = "AddSub"
    /\ inst' = addsub_inst(binst)
    /\ pc' = "done"
    /\ UNCHANGED <<binst, checks, regs, dbm, hb, rep, wmask, fl>>

DecodeLogic ==
    /\ pc = "entry" /\ Kind = "Logic"
    /\ inst' = logic_head(binst)
    /\ dbm' = logic_args(binst, inst'.flags)
    /\ pc' = "decode_bitmask"
    /\ UNCHANGED <<binst, checks, regs, hb, rep, wmask, fl>>

DecodeMove ==
    /\ pc = "entry" /\ Kind = "Move"
    /\ inst' = move_inst(binst)
    /\ pc' = "done"
    /\ UNCHANGED <<binst, checks, regs, dbm, hb, rep, wmask, fl>>

DecodeBitfield ==
    /\ pc = "entry" /\ Kind = "Bitfield"
    /\ LET r == bitfield_inst(binst, checks)
       IN  IF r.panic
           THEN pc' = "panic" /\ UNCHANGED inst
           ELSE pc' = "done" /\ inst' = r.inst
    /\ UNCHANGED <<binst, checks, regs, dbm, hb, rep, wmask, fl>>

DecodeExtract ==
    /\ pc = "entry" /\ Kind = "Extract"
    /\ inst' = extract_inst(binst)
    /\ pc' = "done"
    /\ UNCHANGED <<binst, checks, regs, dbm, hb, rep, wmask, fl>>

\* decode_bitmask calls highest_bit
BitmaskEnter ==
    /\ pc = "decode_bitmask"
    /\ hb' = [x |-> highest_bit_arg(dbm.immN, dbm.imms), n |-> 0]
    /\ pc' = "highest_bit"
    /\ UNCHANGED <<binst, checks, inst, regs, dbm, rep, wmask, fl>>

\* one iteration of  while x != 1 { x >>= 1; n += 1 }.  Once x is 0 it stays
\* 0 and only n changes; the model follows MaxSpin such iterations.
HighestBitStep ==
    /\ pc = "highest_bit"
    /\ hb.x # 1
    /\ hb.x = 0 => hb.n < MaxSpin
    /\ hb' = [x |-> hb.x \div 2, n |-> hb.n + 1]
    /\ UNCHANGED <<binst, checks, pc, inst, regs, dbm, rep, wmask, fl>>

\* with x = 0 the counter n (i32) runs up to its maximum; n += 1 then
\* panics when overflow-checks is on and wraps (the loop goes on) when off
HighestBitOverflow ==
    /\ pc = "highest_bit"
    /\ hb.x = 0 /\ hb.n >= MaxSpin
    /\ checks
    /\ pc' = "panic"
    /\ UNCHANGED <<binst, checks, inst, regs, dbm, hb, rep, wmask, fl>>

\* highest_bit returns n; decode_bitmask builds the rotated element
BitmaskElement ==
    /\ pc = "highest_bit"
    /\ hb.x = 1
    /\ LET r == decode_bitmask_elem(hb.n, dbm.imms, dbm.immr, dbm.w32)
       IN  IF checks /\ r.overflow
           THEN pc' = "panic" /\ UNCHANGED <<rep, wmask>>
           ELSE pc' = "replicate" /\ rep' = r /\ wmask' = {}
    /\ UNCHANGED <<binst, checks, inst, regs, dbm, hb, fl>>

\* one iteration of  for i in (0..M).step_by(esize)
ReplicateStep ==
    /\ pc = "replicate"
    /\ rep.i < rep.M
    /\ IF checks /\ replicate_overflows(rep.esize)
       THEN pc' = "panic" /\ UNCHANGED <<rep, wmask>>
       ELSE /\ wmask' = replicate_step(wmask, rep.welem, rep.esize)
            /\ rep' = [rep EXCEPT !.i = @ + rep.esize]
            /\ pc' = pc
    /\ UNCHANGED <<binst, checks, inst, regs, dbm, hb, fl>>

\* the loop is over: decode_bitmask returns wmask
BitmaskReturn ==
    /\ pc = "replicate"
    /\ rep.i >= rep.M
    /\ pc' = "bitmask_done"
    /\ UNCHANGED <<binst, checks, inst, regs, dbm, hb, rep, wmask, fl>>

LogicFinish ==
    /\ pc = "bitmask_done"
    /\ inst' = logic_tail(binst, inst, wmask)
    /\ pc' = "done"
    /\ UNCHANGED <<binst, checks, regs, dbm, hb, rep, wmask, fl>>

Next ==
    \/ DecodePCRelAddr
    \/ DecodeAddSubTags
    \/ DecodeAddSub
    \/ DecodeLogic
    \/ DecodeMove
    \/ DecodeBitfield
    \/ DecodeExtract
    \/ BitmaskEnter
    \/ HighestBitStep
    \/ HighestBitOverflow
    \/ BitmaskElement
    \/ ReplicateStep
    \/ BitmaskReturn
    \/ LogicFinish

Spec == Init /\ [][Next]_vars

(***************************************************************************)
(* decode_bitmask(immN, imms, immr, w32) called on its own.                *)
(***************************************************************************)
InitBitmask ==
    /\ dbm \in [immN : 0..1, imms : 0..63, immr : 0..63, w32 : BOOLEAN]
    /\ checks \in BOOLEAN
    /\ pc = "decode_bitmask"
    /\ binst = {}
    /\ inst = UNKNOWN_INST
    /\ regs = NoRegs
    /\ hb = NoHb
    /\ rep = NoRep
    /\ wmask = {}
    /\ fl = NoFl

NextBitmask ==
    \/ BitmaskEnter
    \/ HighestBitStep
    \/ HighestBitOverflow
    \/ BitmaskElement
    \/ ReplicateStep
    \/ BitmaskReturn

SpecBitmask == InitBitmask /\ [][NextBitmask]_vars

(***************************************************************************)
(* The six register extraction functions applied to one word.              *)
(***************************************************************************)
InitRegs ==
    /\ binst \in RegWords
    /\ checks \in BOOLEAN
    /\ pc = "regs"
    /\ inst = UNKNOWN_INST
    /\ regs = NoRegs
    /\ dbm = NoDbm
    /\ hb = NoHb
    /\ rep = NoRep
    /\ wmask = {}
    /\ fl = NoFl

ExtractRegs ==
    /\ pc = "regs"
    /\ regs' = [ rd |-> regRd(binst), rdsp |-> regRdSP(binst),
                 rn |-> regRn(binst), rnsp |-> regRnSP(binst),
                 rm |-> regRm(binst), rmsp |-> regRmSP(binst) ]
    /\ pc' = "regs_done"
    /\ UNCHANGED <<binst, checks, inst, dbm, hb, rep, wmask, fl>>

NextRegs == ExtractRegs

SpecRegs == InitRegs /\ [][NextRegs]_vars

(***************************************************************************)
(* One call of a flags mutator on a flags byte f with a value v.  These    *)
(* functions shift by constants and mask before shifting, so no build      *)
(* profile makes them overflow.                                            *)
(***************************************************************************)
\* values for the u8 argument: every value of the low five bits and two
\* values with high bits set
SampleVals == (0..MaxVal) \cup {250, 255}

InitFlags ==
    /\ fl \in [f : 0..255, v : SampleVals, op : {"none"}, out : {0}]
    /\ checks = FALSE
    /\ pc = "flags"
    /\ binst = {}
    /\ inst = UNKNOWN_INST
    /\ regs = NoRegs
    /\ dbm = NoDbm
    /\ hb = NoHb
    /\ rep = NoRep
    /\ wmask = {}

SetCond ==
    /\ pc = "flags"
    /\ fl' = [fl EXCEPT !.op = "set_cond", !.out = set_cond(fl.f, fl.v)]
    /\ pc' = "flags_done"
    /\ UNCHANGED <<binst, checks, inst, regs, dbm, hb, rep, wmask>>

SetAddrmode ==
    /\ pc = "flags"
    /\ fl' = [fl EXCEPT !.op = "set_addrmode", !.out = set_addrmode(fl.f, fl.v)]
    /\ pc' = "flags_done"
    /\ UNCHANGED <<binst, checks, inst, regs, dbm, hb, rep, wmask>>

SetMemExtend ==
    /\ pc = "flags"
    /\ fl' = [fl EXCEPT !.op = "set_mem_extend", !.out = set_mem_extend(fl.f, fl.v)]
    /\ pc' = "flags_done"
    /\ UNCHANGED <<binst, checks, inst, regs, dbm, hb, rep, wmask>>

SetVecArrangement ==
    /\ pc = "flags"
    /\ fl' = [fl EXCEPT !.op = "set_vec_arrangement",
                        !.out = set_vec_arrangement(fl.f, fl.v)]
    /\ pc' = "flags_done"
    /\ UNCHANGED <<binst, checks, inst, regs, dbm, hb, rep, wmask>>

SetPrec ==
    /\ pc = "flags"
    /\ fl' = [fl EXCEPT !.op = "set_prec", !.out = set_prec(fl.f, fl.v)]
    /\ pc' = "flags_done"
    /\ UNCHANGED <<binst, checks, inst, regs, dbm, hb, rep, wmask>>

NextFlags ==
    \/ SetCond
    \/ SetAddrmode
    \/ SetMemExtend
    \/ SetVecArrangement
    \/ SetPrec

SpecFlags == InitFlags /\ [][NextFlags]_vars

(***************************************************************************)
(* Properties.  Fields of the word are read here by bit position, as the   *)
(* claims name them.                                                       *)
(***************************************************************************)
\* the n-bit field of w whose lowest bit is bit lo
FieldOf(w, lo, n) == Val({i - lo : i \in (w \cap (lo..(lo + n - 1)))})

SpReg(f) == IF f = 31 THEN 100 ELSE f

ClassifiedOps ==
    { "A64_ADR", "A64_ADRP", "A64_ADD_IMM", "A64_CMN_IMM", "A64_MOV_SP",
      "A64_SUB_IMM", "A64_CMP_IMM", "A64_AND_IMM", "A64_ORR_IMM",
      "A64_EOR_IMM", "A64_TST_IMM", "A64_MOVK", "A64_MOV_IMM",
      "A64_ASR_IMM", "A64_SBFIZ", "A64_SBFX", "A64_BFC", "A64_BFI",
      "A64_BFXIL", "A64_LSL_IMM", "A64_LSR_IMM", "A64_UBFIZ", "A64_UBFX",
      "A64_EXTEND", "A64_EXTR", "A64_ROR_IMM" }

\* C1: Totality.  Every word makes data_proc_imm return one record that is
\* a classified instruction, an Unknown record or an Error record; no word
\* makes the decoder panic.
C1_Totality ==
    /\ pc # "panic"
    /\ pc = "done" => inst.op \in ClassifiedOps \cup {"A64_UNKNOWN", "A64_ERROR"}

\* the reference procedure (DecodeBitMasks) as the claim states it
RefLen(N, imms) ==
    CHOOSE k \in 0..6 : (2^k) <= ((N * 64) + (63 - imms))
                          /\ ((N * 64) + (63 - imms)) < (2^(k + 1))

RefBitmask(N, imms, immr, width) ==
    LET esize == 2^RefLen(N, imms)
        S == imms % esize
        R == immr % esize
        element == {((i + esize) - R) % esize : i \in 0..S}
    IN  {j \in 0..(width - 1) : (j % esize) \in element}

BitmaskWidth == IF dbm.w32 THEN 32 ELSE 64

ValidBitmaskArgs ==
    /\ ((dbm.immN * 64) + (63 - dbm.imms)) # 0
    /\ dbm.w32 => dbm.immN = 0

\* C2: Bitmask reconstruction matches the reference procedure.  For every
\* N, imms, immr and width with v = (N<<6)|(~imms & 0x3F) non-zero and N = 0
\* at width 32, decode_bitmask returns the element of S+1 ones rotated right
\* by R within esize bits, replicated over the width; the result is below
\* 2^width and periodic with period esize.
C2_MatchesReference ==
    (ValidBitmaskArgs /\ pc \in {"bitmask_done", "panic"}) =>
        LET esize == 2^RefLen(dbm.immN, dbm.imms)
        IN  /\ pc = "bitmask_done"
            /\ wmask = RefBitmask(dbm.immN, dbm.imms, dbm.immr, BitmaskWidth)
            /\ wmask \subseteq 0..(BitmaskWidth - 1)
            /\ \A j \in 0..(BitmaskWidth - 1 - esize) :
                 (j \in wmask) <=> ((j + esize) \in wmask)

\* C3: Bitmask round trip.  For every valid (N, imms, immr, width) the low
\* esize bits of decode_bitmask's result, rotated left by immr mod esize
\* within esize bits, are the run of S+1 low ones; N=0, imms=3, immr=0,
\* width=32 gives 0x0000000F.
C3_RoundTrip ==
    (ValidBitmaskArgs /\ pc \in {"bitmask_done", "panic"}) =>
        LET esize == 2^RefLen(dbm.immN, dbm.imms)
            S == dbm.imms % esize
            R == dbm.immr % esize
            low == wmask \cap (0..(esize - 1))
        IN  /\ pc = "bitmask_done"
            /\ {(i + R) % esize : i \in low} = 0..S
            /\ (dbm.immN = 0 /\ dbm.imms = 3 /\ dbm.immr = 0 /\ dbm.w32)
                 => wmask = {0, 1, 2, 3}

\* the loop  while x != 1 { x >>= 1 }  reaches its exit from x
LoopExits(x) == \E k \in 0..30 : (x \div (2^k)) = 1

\* C4: Termination.  For every logical-immediate word (bits 25:23 = 100)
\* the bit-counting loop of highest_bit reaches its exit for the argument
\* decode_bitmask passes to it, and the decode call does not abort.
C4_Terminates ==
    FieldOf(binst, 23, 3) = 4 =>
        /\ pc = "highest_bit" => LoopExits(hb.x)
        /\ pc # "panic"

\* C5: Register sentinel consistency.  Each SP-aware extraction returns 100
\* when its 5-bit field is 31 and the field value otherwise; each plain
\* extraction returns the field value 0..31 and never 100; the results
\* depend on no bit outside the field (Rd bits 4:0, Rn 9:5, Rm 20:16).
C5_RegisterSentinels ==
    pc = "regs_done" =>
        /\ regs.rdsp = SpReg(FieldOf(binst, 0, 5))
        /\ regs.rnsp = SpReg(FieldOf(binst, 5, 5))
        /\ regs.rmsp = SpReg(FieldOf(binst, 16, 5))
        /\ regs.rd = FieldOf(binst, 0, 5)
        /\ regs.rn = FieldOf(binst, 5, 5)
        /\ regs.rm = FieldOf(binst, 16, 5)
        /\ {regs.rd, regs.rn, regs.rm} \subseteq 0..31

\* reached: Rd = 31 and Rm = 31 map to SP, Rn = 30 is unchanged, with the
\* bits outside the three fields set
C5_Witness ==
    /\ pc = "regs_done"
    /\ 31 \in binst
    /\ regs.rdsp = 100 /\ regs.rd = 31
    /\ regs.rnsp = 30 /\ regs.rn = 30
    /\ regs.rmsp = 100 /\ regs.rm = 31

IsAddSub == FieldOf(binst, 23, 3) = 2

\* the word encodes ADD with shift = 0, imm12 = 0 and Rd = 31 or Rn = 31
MovSpWord ==
    /\ 30 \notin binst
    /\ 22 \notin binst
    /\ FieldOf(binst, 10, 12) = 0
    /\ (FieldOf(binst, 0, 5) = 31 \/ FieldOf(binst, 5, 5) = 31)

\* C6: Add/sub alias to move-to/from-SP.  For every add/sub-immediate word
\* with set-flags bit 29 = 0 the decoder returns A64_MOV_SP exactly when the
\* word is ADD with shift = 0, imm12 = 0 and Rd = 31 or Rn = 31, otherwise
\* A64_ADD_IMM or A64_SUB_IMM; in the MOV_SP record a field value 31 is
\* stored as 100 (Rd=31, Rn=5 gives MOV_SP, rd=100, rn=5, imm=0).
C6_MovSpAlias ==
    (IsAddSub /\ 29 \notin binst /\ pc # "entry") =>
        /\ pc = "done"
        /\ (inst.op = "A64_MOV_SP") <=> MovSpWord
        /\ ~MovSpWord => inst.op \in {"A64_ADD_IMM", "A64_SUB_IMM"}
        /\ MovSpWord => /\ inst.rd = SpReg(FieldOf(binst, 0, 5))
                        /\ inst.rn = SpReg(FieldOf(binst, 5, 5))
                        /\ inst.imm = {}
        /\ (MovSpWord /\ FieldOf(binst, 0, 5) = 31 /\ FieldOf(binst, 5, 5) = 5)
             => (inst.rd = 100 /\ inst.rn = 5)

\* reached: ADD SP, X5, #0 decoded as MOV_SP
C6_Witness ==
    /\ pc = "done"
    /\ IsAddSub /\ 29 \notin binst /\ MovSpWord
    /\ FieldOf(binst, 0, 5) = 31 /\ FieldOf(binst, 5, 5) = 5
    /\ inst.op = "A64_MOV_SP"

\* C7: Add/sub compare aliases.  For every add/sub-immediate word with
\* set-flags bit 29 = 1: Rd = 31 gives A64_CMN_IMM (ADD) or A64_CMP_IMM (SUB)
\* with rd = 31 and the set-flags bit in flags, also when imm12 = 0,
\* shift = 0 and Rn = 31; Rd other than 31 keeps the flag-setting ADD/SUB op
\* with rd = Rd field.
C7_CompareAliases ==
    (IsAddSub /\ 29 \in binst /\ pc # "entry") =>
        /\ pc = "done"
        /\ AndN(inst.flags, 2) # 0
        /\ inst.rd = FieldOf(binst, 0, 5)
        /\ inst.op = IF FieldOf(binst, 0, 5) = 31
                     THEN (IF 30 \notin binst THEN "A64_CMN_IMM" ELSE "A64_CMP_IMM")
                     ELSE (IF 30 \notin binst THEN "A64_ADD_IMM" ELSE "A64_SUB_IMM")

IsBitfield == FieldOf(binst, 23, 3) = 6

\* base operation of a bitfield word, bits 30:29
IsSBFM == IsBitfield /\ FieldOf(binst, 29, 2) = 0
IsUBFM == IsBitfield /\ FieldOf(binst, 29, 2) = 2

\* the extend type (signed bit, size) the claim names for imms = 7, 15, 31
ClaimedExtend(signed, imms) ==
    (IF signed THEN 4 ELSE 0) + (CASE imms = 7 -> 0 [] imms = 15 -> 1 [] imms = 31 -> 2)

IsExtendOf(signed, imms) ==
    /\ pc = "done"
    /\ inst.op = "A64_EXTEND"
    /\ inst.extend.typ = ClaimedExtend(signed, imms)

\* C8 as stated: at either operand width, SBFM/UBFM with immr = 0 and
\* imms = 7 or 15 decode to A64_EXTEND with the signed/unsigned byte/halfword
\* type and SBFM with immr = 0, imms = 31 decodes to A64_EXTEND with SXTW.
C8_ExtendAliases_AnyWidth ==
    (pc # "entry" /\ (IsSBFM \/ IsUBFM) /\ FieldOf(binst, 16, 6) = 0) =>
        /\ FieldOf(binst, 10, 6) \in {7, 15} => IsExtendOf(IsSBFM, FieldOf(binst, 10, 6))
        /\ (IsSBFM /\ FieldOf(binst, 10, 6) = 31) => IsExtendOf(TRUE, 31)

\* C8 (amended): SBFM/UBFM with immr = 0 and imms = 7 or 15 decode to
\* A64_EXTEND with the matching byte/halfword type at either width; SBFM
\* with immr = 0, imms = 31 decodes to A64_EXTEND with SXTW at 64-bit width
\* and, imms being all ones there, to A64_ASR_IMM with imm = 0 at 32-bit
\* width.
C8_ExtendAliases ==
    (pc # "entry" /\ (IsSBFM \/ IsUBFM) /\ FieldOf(binst, 16, 6) = 0) =>
        /\ FieldOf(binst, 10, 6) \in {7, 15} => IsExtendOf(IsSBFM, FieldOf(binst, 10, 6))
        /\ (IsSBFM /\ FieldOf(binst, 10, 6) = 31 /\ 31 \in binst) => IsExtendOf(TRUE, 31)
        /\ (IsSBFM /\ FieldOf(binst, 10, 6) = 31 /\ 31 \notin binst) =>
              (pc = "done" /\ inst.op = "A64_ASR_IMM" /\ inst.imm = {})

\* reached: 64-bit SBFM with immr = 0, imms = 31 decoded as SXTW
C8_Witness ==
    /\ pc = "done"
    /\ IsSBFM /\ 31 \in binst
    /\ FieldOf(binst, 16, 6) = 0 /\ FieldOf(binst, 10, 6) = 31
    /\ inst.op = "A64_EXTEND" /\ inst.extend.typ = 6

\* UBFM with immr = 0, imms = 31
IsUxtwWord == IsUBFM /\ FieldOf(binst, 16, 6) = 0 /\ FieldOf(binst, 10, 6) = 31

\* C9 as stated: at either operand width UBFM with immr = 0, imms = 31
\* never yields an instruction record.
C9_UxtwRejected_AnyWidth == IsUxtwWord => pc # "done"

\* C9 (amended): UBFM with immr = 0, imms = 31 never yields a record at
\* 64-bit operand width (the decode call aborts); at 32-bit width imms is
\* all ones and the word decodes to A64_LSR_IMM with imm = 0.
C9_UxtwRejected ==
    (IsUxtwWord /\ pc # "entry") =>
        IF 31 \in binst
        THEN pc = "panic"
        ELSE pc = "done" /\ inst.op = "A64_LSR_IMM" /\ inst.imm = {}

\* reached: the 64-bit word has been rejected
C9_Witness == IsUxtwWord /\ 31 \in binst /\ pc = "panic"

\* MOVK: move-wide word with bits 30:29 = 11
IsMovk == FieldOf(binst, 23, 3) = 5 /\ FieldOf(binst, 29, 2) = 3

\* the MOVK record the claim describes, with the given flags byte
MovkRecord(flags) ==
    [UNKNOWN_INST EXCEPT
        !.op = "A64_MOVK",
        !.flags = flags,
        !.rd = FieldOf(binst, 0, 5),
        !.movk = [imm16 |-> FieldOf(binst, 5, 16),
                  lsl |-> 16 * FieldOf(binst, 21, 2)]]

\* C10 as stated: every field of a MOVK record outside op, rd, movk.imm16
\* and movk.lsl, flags included, has its UNKNOWN_INST value.
C10_MovkIsolation_FlagsDefault ==
    (IsMovk /\ pc # "entry") => (pc = "done" /\ inst = MovkRecord(0))

\* C10 (amended): a MOVK record has op A64_MOVK, rd = Rd field,
\* movk.imm16 = imm16, movk.lsl = 16*hw, flags = W32 (1) when bit 31 = 0 and
\* 0 when bit 31 = 1, and every other field at its UNKNOWN_INST value.
C10_MovkIsolation ==
    (IsMovk /\ pc # "entry") =>
        (pc = "done" /\ inst = MovkRecord(IF 31 \in binst THEN 0 ELSE 1))

\* reached: 32-bit MOVK with imm16 = 0x1234, hw = 1
C10_Witness ==
    /\ pc = "done"
    /\ IsMovk /\ 31 \notin binst
    /\ inst.op = "A64_MOVK"
    /\ inst.movk = [imm16 |-> 4660, lsl |-> 16]
    /\ inst.flags = 1

\* the sub-ranges of the flags byte the claims name, the bits each one's
\* accessor reads and the value it returns
SubRanges == {"width", "set_flags", "cond", "addrmode", "mem_extend", "prec"}

RangeBits(r) ==
    CASE r = "width" -> {0}
      [] r = "set_flags" -> {1}
      [] r = "cond" -> 4..7
      [] r = "addrmode" -> 5..7
      [] r = "mem_extend" -> 2..4
      [] r = "vec_arrangement" -> 2..4
      [] r = "prec" -> 1..3

ReadRange(r, f) ==
    CASE r = "width" -> AndN(f, W32)
      [] r = "set_flags" -> AndN(f, SET_FLAGS)
      [] r = "cond" -> fad_get_cond(f)
      [] r = "addrmode" -> fad_get_addrmode(f)
      [] r = "mem_extend" -> fad_get_mem_extend(f)
      [] r = "vec_arrangement" -> fad_get_vec_arrangement(f)
      [] r = "prec" -> fad_get_prec(f)

\* the sub-range a mutator writes
WrittenBy(op) ==
    CASE op = "set_cond" -> "cond"
      [] op = "set_addrmode" -> "addrmode"
      [] op = "set_mem_extend" -> "mem_extend"
      [] op = "set_vec_arrangement" -> "vec_arrangement"
      [] op = "set_prec" -> "prec"

IsolationMutators == {"set_cond", "set_addrmode", "set_mem_extend", "set_prec"}

\* C11 as stated: set_addrmode leaves the width bit, the set-flags bit and
\* the condition nibble unchanged, and writing any sub-range with its
\* mutator leaves the value read from every other sub-range unchanged.
C11_FlagsIsolation_AllPairs ==
    (pc = "flags_done" /\ fl.op \in IsolationMutators) =>
        \A r \in SubRanges \ {WrittenBy(fl.op)} :
            ReadRange(r, fl.out) = ReadRange(r, fl.f)

\* C11 (amended): writing a sub-range with its mutator leaves unchanged the
\* value read from every other sub-range whose bits are disjoint from the
\* written one (cond 4..7, addrmode 5..7, mem_extend 2..4, prec 1..3, width
\* bit 0, set-flags bit 1); set_addrmode leaves the width bit, the
\* set-flags bit and bit 4, the lowest bit of the condition nibble,
\* unchanged, and replaces the upper three bits of the condition nibble by
\* the mode.
C11_FlagsIsolation ==
    (pc = "flags_done" /\ fl.op \in IsolationMutators) =>
        /\ \A r \in SubRanges \ {WrittenBy(fl.op)} :
              (RangeBits(r) \cap RangeBits(WrittenBy(fl.op)) = {})
                 => ReadRange(r, fl.out) = ReadRange(r, fl.f)
        /\ fl.op = "set_addrmode" =>
              /\ ReadRange("width", fl.out) = ReadRange("width", fl.f)
              /\ ReadRange("set_flags", fl.out) = ReadRange("set_flags", fl.f)
              /\ ReadRange("cond", fl.out) =
                    (2 * (fl.v % 8)) + (ReadRange("cond", fl.f) % 2)

\* reached: set_addrmode(0x1F, 5) = 0xBF keeps bits 0..4 and turns the
\* condition nibble from 1 into 11
C11_Witness ==
    /\ pc = "flags_done"
    /\ fl.op = "set_addrmode" /\ fl.f = 31 /\ fl.v = 5
    /\ fl.out = 191
    /\ fad_get_cond(fl.f) = 1 /\ fad_get_cond(fl.out) = 11

\* C12: Flags mutators touch only their own bits.  For each of the five
\* accessor/mutator pairs, every byte f and every value v, the accessor
\* applied to the mutator's result returns v truncated to the sub-range
\* width (4 bits for cond, 3 bits otherwise) and every bit of f outside the
\* bits the accessor reads is unchanged in the result.
C12_OwnBitsOnly ==
    pc = "flags_done" =>
        LET r == WrittenBy(fl.op)
        IN  /\ ReadRange(r, fl.out) = fl.v % (2^Cardinality(RangeBits(r)))
            /\ Bits(fl.out) \ RangeBits(r) = Bits(fl.f) \ RangeBits(r)
            /\ fl.out \in 0..255

\* reached: set_prec(0xFF, 0xFA) = 0xF5, read back as 2
C12_Witness ==
    /\ pc = "flags_done"
    /\ fl.op = "set_prec" /\ fl.f = 255 /\ fl.v = 250
    /\ fl.out = 245 /\ fad_get_prec(fl.out) = 2

\* C13: Unknown records carry the raw word.  Whenever data_proc_imm returns
\* a record with op A64_UNKNOWN for a word w, the record's imm is w and its
\* error string is empty.
C13_UnknownCarriesWord ==
    (pc = "done" /\ inst.op = "A64_UNKNOWN") =>
        /\ inst.imm = binst
        /\ inst.error = ""

IsMoveWide == FieldOf(binst, 23, 3) = 5

\* imm16 (bits 20:5) shifted left by 16*hw (hw = bits 22:21), as a bit set
MoveWideShifted ==
    {(i - 5) + (16 * FieldOf(binst, 21, 2)) : i \in binst \cap (5..20)}

\* C14: Move-wide classification.  For every move-wide word, selector
\* (bits 30:29) 00 gives A64_MOV_IMM with imm = NOT (imm16 << 16*hw),
\* selector 10 gives A64_MOV_IMM with imm = imm16 << 16*hw, selector 11
\* gives A64_MOVK with imm = 0, the reserved selector 01 gives an Unknown
\* record; in the classified cases rd is the plain Rd field.
C14_MoveWide ==
    (IsMoveWide /\ pc # "entry") =>
        /\ pc = "done"
        /\ CASE FieldOf(binst, 29, 2) = 0 ->
                   /\ inst.op = "A64_MOV_IMM"
                   /\ inst.imm = (0..63) \ MoveWideShifted
              [] FieldOf(binst, 29, 2) = 2 ->
                   /\ inst.op = "A64_MOV_IMM"
                   /\ inst.imm = MoveWideShifted
              [] FieldOf(binst, 29, 2) = 3 ->
                   /\ inst.op = "A64_MOVK"
                   /\ inst.imm = {}
              [] FieldOf(binst, 29, 2) = 1 ->
                   inst.op = "A64_UNKNOWN"
        /\ FieldOf(binst, 29, 2) # 1 => inst.rd = FieldOf(binst, 0, 5)

\* reached: 64-bit MOVN with hw = 3 and Rd = 31; bit 16 of the word is bit
\* 11 of imm16, so bit 59 of the immediate is clear and bit 0 is set
C14_Witness ==
    /\ pc = "done"
    /\ IsMoveWide /\ FieldOf(binst, 29, 2) = 0 /\ 31 \in binst
    /\ FieldOf(binst, 21, 2) = 3 /\ 16 \in binst
    /\ inst.op = "A64_MOV_IMM"
    /\ 59 \notin inst.imm /\ 0 \in inst.imm
    /\ inst.rd = 31

IsBFM == IsBitfield /\ FieldOf(binst, 29, 2) = 1

\* operand width of a bitfield word in bits, from bit 31
BitfieldBits == IF 31 \in binst THEN 64 ELSE 32

\* the record has the given op and bitfield position, the registers of the
\* word and no immediate
IsBitfieldRecord(op, lsb, width) ==
    /\ pc = "done"
    /\ inst.op = op
    /\ inst.bfm.lsb = lsb /\ inst.bfm.width = width
    /\ inst.rd = FieldOf(binst, 0, 5) /\ inst.rn = FieldOf(binst, 5, 5)
    /\ inst.imm = {}

\* C15: Bitfield alias resolution for base BFM.  For every width, rd, rn,
\* immr and imms: A64_BFXIL with lsb = immr, width = imms - immr + 1 when
\* imms >= immr; otherwise A64_BFC when rn = 31 and A64_BFI when not, with
\* lsb = bits - immr and width = imms + 1; rd and rn are copied unchanged
\* and imm stays 0.
C15_BfmAliases ==
    (IsBFM /\ pc # "entry") =>
        LET immr == FieldOf(binst, 16, 6)
            imms == FieldOf(binst, 10, 6)
        IN  IF imms >= immr
            THEN IsBitfieldRecord("A64_BFXIL", immr, (imms - immr) + 1)
            ELSE IsBitfieldRecord(IF FieldOf(binst, 5, 5) = 31 THEN "A64_BFC"
                                  ELSE "A64_BFI",
                                  BitfieldBits - immr, imms + 1)

\* the record is a shift by immediate with the given amount
IsShiftRecord(op, amount) ==
    /\ pc = "done"
    /\ inst.op = op
    /\ inst.imm \subseteq 0..30 /\ Val(inst.imm) = amount

\* C16: Bitfield alias resolution for SBFM/UBFM is a first-match-wins
\* cascade: (a) UBFM with imms + 1 = immr and imms not all ones gives
\* A64_LSL_IMM with imm = all-ones - imms; (b) otherwise imms all ones gives
\* A64_ASR_IMM / A64_LSR_IMM with imm = immr; (c) otherwise imms < immr
\* gives A64_SBFIZ / A64_UBFIZ with lsb = bits - immr, width = imms + 1;
\* (d) otherwise, the extend rule not applying, A64_SBFX / A64_UBFX with
\* lsb = immr, width = imms - immr + 1.
C16_BitfieldCascade ==
    ((IsSBFM \/ IsUBFM) /\ pc # "entry") =>
        LET immr == FieldOf(binst, 16, 6)
            imms == FieldOf(binst, 10, 6)
            all_ones == BitfieldBits - 1
        IN  IF IsUBFM /\ imms + 1 = immr /\ imms # all_ones
            THEN IsShiftRecord("A64_LSL_IMM", all_ones - imms)
            ELSE IF imms = all_ones
            THEN IsShiftRecord(IF IsSBFM THEN "A64_ASR_IMM" ELSE "A64_LSR_IMM", immr)
            ELSE IF imms < immr
            THEN IsBitfieldRecord(IF IsSBFM THEN "A64_SBFIZ" ELSE "A64_UBFIZ",
                                  BitfieldBits - immr, imms + 1)
            ELSE IF immr = 0 /\ imms \in {7, 15, 31}
            THEN TRUE
            ELSE IsBitfieldRecord(IF IsSBFM THEN "A64_SBFX" ELSE "A64_UBFX",
                                  immr, (imms - immr) + 1)

IsPCRel == FieldOf(binst, 24, 2) = 0

\* the 21-bit immediate of a PC-relative word: bits 23:5 above bits 30:29
PCRelImm21 == {i - 3 : i \in binst \cap (5..23)} \cup {i - 29 : i \in binst \cap {29, 30}}

\* its sign extension to 64 bits, as a two's complement bit pattern
PCRelSigned == PCRelImm21 \cup (IF 20 \in PCRelImm21 THEN 21..63 ELSE {})

\* a 64-bit pattern whose bits from position k up are all equal is a
\* value in [-2^k, 2^k - 1]
FitsSigned(s, k) == ((k..63) \subseteq s) \/ ((k..63) \cap s = {})

\* C17: PC-relative decode.  For every PC-relative word the offset is the
\* 21-bit value (bits 23:5 high, bits 30:29 low) sign-extended to 64 bits,
\* times 4096 when bit 31 = 1 (A64_ADRP), unscaled when bit 31 = 0
\* (A64_ADR); the ADR offset lies in [-2^20, 2^20 - 1], the ADRP offset is a
\* multiple of 4096 in [-2^32, 2^32 - 4096]; W32 is clear and rd is the
\* plain Rd field.
C17_PCRelative ==
    (IsPCRel /\ pc # "entry") =>
        /\ pc = "done"
        /\ AndN(inst.flags, 1) = 0
        /\ inst.rd = FieldOf(binst, 0, 5)
        /\ IF 31 \in binst
           THEN /\ inst.op = "A64_ADRP"
                /\ inst.offset = {i + 12 : i \in {j \in PCRelSigned : j + 12 < 64}}
                /\ inst.offset \cap (0..11) = {}
                /\ FitsSigned(inst.offset, 32)
           ELSE /\ inst.op = "A64_ADR"
                /\ inst.offset = PCRelSigned
                /\ FitsSigned(inst.offset, 20)

\* reached: ADRP with a negative immediate and Rd = 31
C17_Witness ==
    /\ pc = "done"
    /\ IsPCRel /\ 31 \in binst /\ 23 \in binst /\ 29 \in binst
    /\ inst.op = "A64_ADRP"
    /\ 63 \in inst.offset /\ 12 \in inst.offset
    /\ inst.rd = 31 /\ inst.flags = 0

IsLogic == FieldOf(binst, 23, 3) = 4

\* N as the logical-immediate arm passes it: bit 22 at 64-bit width, 0 at
\* 32-bit width
LogicN == IF 31 \in binst THEN FieldOf(binst, 22, 1) ELSE 0

\* the bitmask encoding is not the reserved one: (N<<6)|(~imms & 0x3F) # 0
LogicNonReserved == ((LogicN * 64) + (63 - FieldOf(binst, 10, 6))) # 0

\* C18: Logical-immediate classification.  For every logical-immediate word
\* with a non-reserved bitmask encoding, selector (bits 30:29) 00/01/10
\* gives A64_AND_IMM/A64_ORR_IMM/A64_EOR_IMM with the set-flags bit clear
\* and rd SP-aware; selector 11 sets the set-flags bit, gives A64_TST_IMM
\* when Rd = 31 and A64_AND_IMM otherwise, with rd plain; rn is the plain Rn
\* field; imm is the bitmask reconstructed with N = bit 22 at 64-bit width
\* and N = 0 at 32-bit width.
C18_LogicalImmediate ==
    (IsLogic /\ LogicNonReserved /\ pc \in {"done", "panic"}) =>
        LET sel == FieldOf(binst, 29, 2)
            rd == FieldOf(binst, 0, 5)
        IN  /\ pc = "done"
            /\ inst.op = CASE sel = 0 -> "A64_AND_IMM"
                            [] sel = 1 -> "A64_ORR_IMM"
                            [] sel = 2 -> "A64_EOR_IMM"
                            [] sel = 3 -> IF rd = 31 THEN "A64_TST_IMM"
                                          ELSE "A64_AND_IMM"
            /\ (AndN(inst.flags, 2) # 0) <=> (sel = 3)
            /\ inst.rd = IF sel = 3 THEN rd ELSE SpReg(rd)
            /\ inst.rn = FieldOf(binst, 5, 5)
            /\ inst.imm = RefBitmask(LogicN, FieldOf(binst, 10, 6),
                                     FieldOf(binst, 16, 6), BitfieldBits)

IsExtract == FieldOf(binst, 23, 3) = 7

\* C19: Extract decode.  For every word of the extract family: when the Rn
\* and Rm fields differ the record is A64_EXTR with imm = bits 15:10 and
\* rd/rn/rm the plain fields; when they are identical it is A64_ROR_IMM
\* with the same imm, rd and rn and rm = 0; the stack-pointer sentinel 100
\* never appears in the record.
C19_Extract ==
    (IsExtract /\ pc # "entry") =>
        /\ pc = "done"
        /\ inst.imm = {i - 10 : i \in binst \cap (10..15)}
        /\ inst.rd = FieldOf(binst, 0, 5)
        /\ inst.rn = FieldOf(binst, 5, 5)
        /\ IF FieldOf(binst, 5, 5) # FieldOf(binst, 16, 5)
           THEN inst.op = "A64_EXTR" /\ inst.rm = FieldOf(binst, 16, 5)
           ELSE inst.op = "A64_ROR_IMM" /\ inst.rm = 0
        /\ 100 \notin {inst.rd, inst.rn, inst.rm, inst.rt2, inst.rs, inst.ra}

\* reached: Rn = Rm = 31 decoded as a rotate of register 31 by 63
C19_Witness ==
    /\ pc = "done"
    /\ IsExtract
    /\ FieldOf(binst, 5, 5) = 31 /\ FieldOf(binst, 16, 5) = 31
    /\ inst.op = "A64_ROR_IMM"
    /\ inst.rn = 31 /\ inst.rm = 0 /\ inst.rd = 31
    /\ inst.imm = 0..5

\* the ops that use each family-specific field
MovkOps == {"A64_MOVK"}

BfmOps == { "A64_BFXIL", "A64_BFC", "A64_BFI", "A64_SBFIZ", "A64_UBFIZ",
            "A64_SBFX", "A64_UBFX" }

ImmOps == { "A64_ADD_IMM", "A64_SUB_IMM", "A64_CMN_IMM", "A64_CMP_IMM",
            "A64_MOV_SP", "A64_AND_IMM", "A64_ORR_IMM", "A64_EOR_IMM",
            "A64_TST_IMM", "A64_MOV_IMM", "A64_LSL_IMM", "A64_LSR_IMM",
            "A64_ASR_IMM", "A64_EXTR", "A64_ROR_IMM" }

\* the fields this class of instructions never uses
UnusedFields ==
    { "error", "ccmp", "sys", "msr_imm", "tbz", "rmif", "ldst_order",
      "simd_ldst", "fcvt", "frint", "ins_elem", "fcmla_elem", "fimm", "rt2",
      "rs", "ra", "shift" }

C21_MovSpNeverSetsFlags ==
    pc = "done" =>
        /\ ~(inst.op = "A64_MOV_SP" /\ AndN(inst.flags, 2) # 0)
        /\ (IsAddSub /\ 29 \in binst) => inst.op # "A64_MOV_SP"

\* C22: The immediate fits the operand width.  Every classified record
\* returned by data_proc_imm whose flags have W32 set has imm < 2^32
\* (add/sub, logical, move-wide in both forms and for every hw,
\* shift-immediate and extract records).
C22_ImmFitsWidth ==
    (pc = "done" /\ inst.op \in ClassifiedOps /\ AndN(inst.flags, 1) # 0) =>
        inst.imm \subseteq 0..31

\* the u8 subtractions find_bfm_alias executes for the word do not
\* underflow: bits - immr (insert forms), all_ones - imms (LSL) and
\* imms - immr (extract forms, executed only when imms >= immr)
BitfieldNoUnderflow ==
    LET immr == FieldOf(binst, 16, 6)
        imms == FieldOf(binst, 10, 6)
        all_ones == BitfieldBits - 1
        lsl == IsUBFM /\ imms + 1 = immr /\ imms # all_ones
    IN  /\ (IsBFM /\ imms < immr) => immr <= BitfieldBits
        /\ lsl => imms <= all_ones
        /\ ((IsSBFM \/ IsUBFM) /\ ~lsl /\ imms # all_ones /\ imms < immr)
              => immr <= BitfieldBits

\* C23: Bitfield results stay inside the register.  For every bitfield
\* word (SBFM, BFM or UBFM, any immr and imms, either width) the u8
\* subtractions of find_bfm_alias never underflow, and the returned record
\* has width >= 1, lsb < bits and lsb + width <= bits when its op carries
\* lsb/width, and imm < bits when its op is LSL_IMM, LSR_IMM or ASR_IMM.
C23_BitfieldInRange ==
    ((IsSBFM \/ IsBFM \/ IsUBFM) /\ pc # "entry") =>
        /\ BitfieldNoUnderflow
        /\ pc = "done" =>
              /\ inst.op \in BfmOps =>
                    /\ inst.bfm.width >= 1
                    /\ inst.bfm.lsb < BitfieldBits
                    /\ inst.bfm.lsb + inst.bfm.width <= BitfieldBits
              /\ inst.op \in {"A64_LSL_IMM", "A64_LSR_IMM", "A64_ASR_IMM"} =>
                    (inst.imm \subseteq 0..30 /\ Val(inst.imm) < BitfieldBits)

====
